---- MODULE Spec2Model ----
(***************************************************************************)
(* A model of pyroved/models/trvae.py: the trVAE class (construction, the  *)
(* model/guide pair and their registration with Pyro's parameter store,    *)
(* split_latent, set_encoder/set_decoder, the batch-wise encode, decode    *)
(* and manifold2d drivers, save_weights/load_weights).                     *)
(*                                                                         *)
(* Tensors are modelled by their shape and by the identity of each cell:   *)
(* a matrix is a sequence of rows, a row a sequence of cells, and a cell   *)
(* <<tag, owner, sample, column>> names where the number came from, so     *)
(* that slicing, chunking, concatenation and splitting are computed as     *)
(* the code computes them and any loss, duplication or reordering shows.   *)
(* Class labels (num_classes > 0, the y argument) are not modelled: every  *)
(* instance has num_classes = 0.                                           *)
(***************************************************************************)
EXTENDS Integers, Sequences, FiniteSets, TLC

\* ------------------------------------------------------------- bounds
\* Number of trVAE objects a behaviour may construct.
MaxInst == 2
\* latent_dim ranges over 1..MaxLatent.
MaxLatent == 2
\* Number of samples in a batch handed to an operation.
MaxN == 3
\* Largest batch_size a caller passes (0 stands for "not passed").
MaxK == 2
\* Batch size init_dataloader uses when the caller passes none (scaled down).
DefaultBatchSize == 2
\* manifold2d's d ranges over 1..MaxD.
MaxD == 2

Insts == 1..MaxInst
LatentDims == 1..MaxLatent
\* Requested coord values: the four valid ones and one on either side.
ReqCoords == -1..4
BatchSizes == 0..MaxK

Min(a, b) == IF a < b THEN a ELSE b

VARIABLES inst, param_store, file, last
vars == <<inst, param_store, file, last>>

\* ------------------------------------------------------------- values
\* A network object. owner is the trVAE that built it (0: supplied by the
\* user), width its latent width (encoder: output z_loc/z_scale width,
\* decoder: accepted latent width).
Net(cls, owner, width) == [cls |-> cls, owner |-> owner, width |-> width]
Unset == Net("unset", 0, 0)
UserNets == {Net("user", 0, 1)}

NoInst ==
  [alive |-> FALSE, ndim |-> 0, latent_dim |-> 0, req |-> 0, coord |-> 0,
   z_dim |-> 0, encoder_net |-> Unset, decoder_net |-> Unset,
   encoder_z |-> Unset, decoder |-> Unset,
   model_called |-> FALSE, guide_called |-> FALSE]

\* What the latest operation was given and what it did.
NoOp ==
  [op |-> "none", self |-> 0, err |-> "", kind |-> "", src |-> "",
   n |-> 0, k |-> 0, ndim |-> 0, latent_dim |-> 0, coord |-> 0,
   calls |-> <<>>, out |-> <<>>]

\* One call of a network: which one, on how many samples, of what width.
Call(net, size, width) == [net |-> net, size |-> size, width |-> width]

\* The samples of a batch x of n rows, named by their index.
Samples(n) == [j \in 1..n |-> j]
\* A latent tensor of shape (n, w) supplied by the caller.
ZTensor(n, w) == [r \in 1..n |-> [c \in 1..w |-> <<"z", 0, r, c>>]]

RECURSIVE Flatten(_)
\* torch.cat of a list of matrices along dim 0.
Flatten(ms) == IF ms = <<>> THEN <<>> ELSE Head(ms) \o Flatten(Tail(ms))

Init ==
  /\ inst = [i \in Insts |-> NoInst]
  /\ param_store = <<>>
  /\ file = {}
  /\ last = NoOp

\* ------------------------------------------------------------- __init__
EffectiveCoord_kept(ndim, coord) == coord

\* Lines 108-109: 1D data collapses every coord > 0 to 1.
EffectiveCoord(ndim, coord) == IF ndim = 1 /\ coord > 0 THEN 1 ELSE coord

CoordValid_upto4(coord) == coord \in {0, 1, 2, 3, 4}

\* Line 113: the values the constructor accepts.
CoordValid(coord) == coord \in {0, 1, 2, 3}

\* Lines 110-112: the encoder is built for latent_dim + coord outputs.
EncoderWidth(latent_dim, coord) == latent_dim + coord

DecoderWidth_full(latent_dim, coord) == latent_dim + coord

\* Lines 115-118: the decoder is built for latent_dim inputs.
DecoderWidth(latent_dim, coord) == latent_dim

DecoderClass(coord) == IF coord \in {1, 2, 3} THEN "sDecoderNet" ELSE "fcDecoderNet"

\* Line 120.
ZDim(latent_dim, coord) == latent_dim + coord

\* trVAE(data_dim, latent_dim, coord) bound to object i; ndim = len(data_dim).
\* pyro.clear_param_store() runs first, whether or not construction succeeds.
Construct(i, ndim, latent_dim, coord) ==
  LET c == EffectiveCoord(ndim, coord)
      rec == [NoOp EXCEPT !.op = "__init__", !.self = i, !.ndim = ndim,
                          !.latent_dim = latent_dim, !.coord = coord]
  IN /\ ~inst[i].alive
     /\ param_store' = <<>>
     /\ file' = file
     /\ IF ~CoordValid(c)
        THEN /\ inst' = inst
             /\ last' = [rec EXCEPT !.err = "ValueError"]
        ELSE /\ inst' = [inst EXCEPT ![i] =
                  [alive |-> TRUE, ndim |-> ndim, latent_dim |-> latent_dim,
                   req |-> coord, coord |-> c, z_dim |-> ZDim(latent_dim, c),
                   encoder_net |-> Net("fcEncoderNet", i, EncoderWidth(latent_dim, c)),
                   decoder_net |-> Net(DecoderClass(c), i, DecoderWidth(latent_dim, c)),
                   encoder_z |-> Unset, decoder |-> Unset,
                   model_called |-> FALSE, guide_called |-> FALSE]]
             /\ last' = rec

\* ------------------------------------------------------------- tensors
\* A value returned in place of a tensor: Python's None, the scalar
\* tt(0), a 1-D tensor (one cell per row) or a 2-D tensor (rows of cells).
T(t, v) == [t |-> t, v |-> v]
None == T("None", <<>>)
tt0 == T("tt0", <<>>)

\* z[:, a:b] with Python's slice clamping; columns are counted from 0.
Cols(z, a, b) ==
  [r \in 1..Len(z) |-> SubSeq(z[r], a + 1, Min(b, Len(z[r])))]
\* z[:, a]
Col(z, a) == [r \in 1..Len(z) |-> z[r][a + 1]]
\* Number of columns of a matrix with at least one row.
Width(z) == Len(z[1])

\* ------------------------------------------------------------- split_latent
split_latent_short(self, z) ==
  IF self.ndim = 1
  THEN <<None, T("mat", Cols(z, 0, 1)), T("mat", Cols(z, 1, Width(z)))>>
  ELSE IF self.coord = 3
       THEN <<T("vec", Col(z, 0)), T("mat", Cols(z, 1, 2)), T("mat", Cols(z, 3, Width(z)))>>
       ELSE IF self.coord = 2
            THEN <<tt0, T("mat", Cols(z, 0, 2)), T("mat", Cols(z, 2, Width(z)))>>
            ELSE IF self.coord = 1
                 THEN <<T("vec", Col(z, 0)), tt0, T("mat", Cols(z, 1, Width(z)))>>
                 ELSE <<tt0, tt0, T("mat", z)>>

\* Lines 187-211. Returns <<phi, dx, z>>.
split_latent(self, z) ==
  IF self.ndim = 1
  THEN <<None, T("mat", Cols(z, 0, 1)), T("mat", Cols(z, 1, Width(z)))>>
  ELSE IF self.coord = 3
       THEN <<T("vec", Col(z, 0)), T("mat", Cols(z, 1, 3)), T("mat", Cols(z, 3, Width(z)))>>
       ELSE IF self.coord = 2
            THEN <<tt0, T("mat", Cols(z, 0, 2)), T("mat", Cols(z, 2, Width(z)))>>
            ELSE IF self.coord = 1
                 THEN <<T("vec", Col(z, 0)), tt0, T("mat", Cols(z, 1, Width(z)))>>
                 ELSE <<tt0, tt0, T("mat", z)>>

\* A direct call self.split_latent(z) on a latent of shape (n, z_dim).
SplitLatent(i, n) ==
  /\ inst[i].alive
  /\ last' = [NoOp EXCEPT !.op = "split_latent", !.self = i, !.n = n,
                          !.out = split_latent(inst[i], ZTensor(n, inst[i].z_dim))]
  /\ UNCHANGED <<inst, param_store, file>>

\* ------------------------------------------------------------- networks
\* encoder_net(x_i): (z_loc, z_scale), one row per sample, each of the
\* encoder's width; the same sample always gives the same row.
encoder_call(net, x_i) ==
  <<[r \in 1..Len(x_i) |-> [c \in 1..net.width |-> <<"loc", net.owner, x_i[r], c>>]],
    [r \in 1..Len(x_i) |-> [c \in 1..net.width |-> <<"scale", net.owner, x_i[r], c>>]]>>

\* decoder_net(z) or decoder_net(grid, z): one reconstruction per row of z,
\* or a tensor-shape error when z is not of the decoder's width.
decoder_call(net, z) ==
  IF \E r \in 1..Len(z) : Len(z[r]) # net.width
  THEN [err |-> "ShapeError", out |-> <<>>]
  ELSE [err |-> "", out |-> [r \in 1..Len(z) |-> <<"dec", net.owner, z[r]>>]]

\* init_dataloader(data, shuffle=False, batch_size=k): the rows of data in
\* order, in batches of k (the default when k = 0), the last one partial.
init_dataloader(data, k) ==
  LET bs == IF k = 0 THEN DefaultBatchSize ELSE k
      nb == (Len(data) + bs - 1) \div bs
  IN [j \in 1..nb |-> SubSeq(data, (j - 1) * bs + 1, Min(j * bs, Len(data)))]

\* ------------------------------------------------------------- pyro
\* pyro.module(name, net): the parameter store is keyed by name; a name it
\* already holds keeps its entry.
pyro_module(store, name, net) ==
  IF \E e \in 1..Len(store) : store[e].name = name
  THEN store
  ELSE Append(store, [name |-> name, net |-> net])

\* Line 138.
ModelModuleName(self) == "decoder_net"
GuideModuleName_pasted(self) == "decoder_net"
\* Line 177.
GuideModuleName(self) == "encoder_net"

\* ------------------------------------------------------------- model, guide
\* Lines 130-167, on a batch x of n samples, y = None.
Model(i, n) ==
  LET self == inst[i]
      z == [r \in 1..n |-> [c \in 1..self.z_dim |-> <<"latent", 0, r, c>>]]
      zc == IF self.coord > 0 THEN split_latent(self, z)[3].v ELSE z
      res == decoder_call(self.decoder_net, zc)
  IN /\ self.alive
     /\ param_store' = pyro_module(param_store, ModelModuleName(self), self.decoder_net)
     /\ inst' = [inst EXCEPT ![i].model_called = TRUE]
     /\ last' = [NoOp EXCEPT !.op = "model", !.self = i, !.n = n, !.err = res.err,
                             !.calls = <<Call(self.decoder_net, n, Width(zc))>>]
     /\ file' = file

\* Lines 169-185.
Guide(i, n) ==
  LET self == inst[i]
  IN /\ self.alive
     /\ param_store' = pyro_module(param_store, GuideModuleName(self), self.encoder_net)
     /\ inst' = [inst EXCEPT ![i].guide_called = TRUE]
     /\ last' = [NoOp EXCEPT !.op = "guide", !.self = i, !.n = n,
                             !.calls = <<Call(self.encoder_net, n, 0)>>]
     /\ file' = file

\* ------------------------------------------------------------- set_*
\* Lines 213-217.
SetEncoder(i, net) ==
  /\ inst[i].alive
  /\ inst' = [inst EXCEPT ![i].encoder_z = net]
  /\ last' = [NoOp EXCEPT !.op = "set_encoder", !.self = i]
  /\ UNCHANGED <<param_store, file>>

\* Lines 219-223.
SetDecoder(i, net) ==
  /\ inst[i].alive
  /\ inst' = [inst EXCEPT ![i].decoder = net]
  /\ last' = [NoOp EXCEPT !.op = "set_decoder", !.self = i]
  /\ UNCHANGED <<param_store, file>>

\* ------------------------------------------------------------- encode
\* Lines 232-236: torch.cat((z_loc, z_scale), -1), row by row.
inference(self, x_i) ==
  LET e == encoder_call(self.encoder_net, x_i)
  IN [r \in 1..Len(x_i) |-> e[1][r] \o e[2][r]]

encode_loop_skip_last(self, loader) ==
  IF Len(loader) = 1 THEN inference(self, loader[1])
  ELSE Flatten([j \in 1..(Len(loader) - 1) |-> inference(self, loader[j])])

\* Lines 242-245: every batch of the loader, in order, concatenated.
encode_loop(self, loader) ==
  Flatten([j \in 1..Len(loader) |-> inference(self, loader[j])])

\* Lines 225-245. kind is the type of x_new; k the batch_size in kwargs.
_encode(self, kind, x_new, k) ==
  IF kind \notin {"Tensor", "DataLoader"}
  THEN [err |-> "TypeError", calls |-> <<>>, out |-> <<>>]
  ELSE LET loader == IF kind = "Tensor" THEN init_dataloader(x_new, k) ELSE x_new
       IN [err |-> "",
           calls |-> [j \in 1..Len(loader) |->
                        Call(self.encoder_net, Len(loader[j]), 0)],
           out |-> encode_loop(self, loader)]

\* z.split(size, 1): consecutive blocks of size columns.
torch_split(z, size) ==
  [j \in 1..((Width(z) + size - 1) \div size) |-> Cols(z, (j - 1) * size, j * size)]

\* Lines 247-254. The kwargs (k) are not handed on to _encode (line 252).
encode(self, kind, x_new, k) ==
  LET z == _encode(self, kind, x_new, 0)
  IN IF z.err # "" THEN z
     ELSE LET parts == torch_split(z.out, self.z_dim)
          IN IF Len(parts) # 2 THEN [z EXCEPT !.err = "ValueError", !.out = <<>>]
             ELSE [z EXCEPT !.out = parts]

\* encode(x_new, batch_size=k) on n samples given as a tensor, as a
\* DataLoader of batch size lb, or as a numpy array.
Encode(i, kind, n, k, lb) ==
  LET self == inst[i]
      x_new == IF kind = "DataLoader" THEN init_dataloader(Samples(n), lb)
               ELSE Samples(n)
      res == encode(self, kind, x_new, k)
  IN /\ self.alive
     /\ last' = [NoOp EXCEPT !.op = "encode", !.self = i, !.kind = kind, !.n = n,
                             !.k = k, !.err = res.err, !.calls = res.calls,
                             !.out = res.out]
     /\ UNCHANGED <<inst, param_store, file>>

\* ------------------------------------------------------------- decode
\* Lines 256-271. A failing decoder call ends the loop.
_decode(self, z_new, k) ==
  LET loader == init_dataloader(z_new, k)
      res == [j \in 1..Len(loader) |-> decoder_call(self.decoder_net, loader[j])]
      bad == {j \in 1..Len(loader) : res[j].err # ""}
      made == IF bad = {} THEN Len(loader)
              ELSE CHOOSE j \in bad : \A j2 \in bad : j <= j2
  IN [err |-> IF bad = {} THEN "" ELSE res[made].err,
      calls |-> [j \in 1..made |->
                   Call(self.decoder_net, Len(loader[j]), Width(loader[j]))],
      out |-> IF bad = {} THEN Flatten([j \in 1..Len(loader) |-> res[j].out])
              ELSE <<>>]

\* Lines 273-284, y = None. z.to(self.device) is the first use of z.
decode(self, kind, z, k) ==
  IF kind # "Tensor"
  THEN [err |-> "AttributeError", calls |-> <<>>, out |-> <<>>]
  ELSE _decode(self, z, k)

\* decode(z, batch_size=k). src names where z comes from: "fresh" is a
\* caller's tensor of shape (n, w); "z_loc" is the z_loc the preceding
\* encode returned; "content" is its columns from coord on.
Decode(i, kind, src, n, w, k) ==
  LET self == inst[i]
      z == IF src = "fresh" THEN ZTensor(n, w)
           ELSE IF src = "z_loc" THEN last.out[1]
           ELSE Cols(last.out[1], self.coord, self.z_dim)
      res == decode(self, kind, z, k)
  IN /\ self.alive
     /\ src # "fresh" =>
          /\ last.op = "encode" /\ last.self = i /\ last.err = ""
          /\ kind = "Tensor" /\ n = last.n /\ w = 0
     /\ last' = [NoOp EXCEPT !.op = "decode", !.self = i, !.kind = kind, !.src = src,
                             !.n = n, !.k = k, !.err = res.err, !.calls = res.calls,
                             !.out = res.out]
     /\ UNCHANGED <<inst, param_store, file>>

\* ------------------------------------------------------------- manifold2d
\* generate_latent_grid(d): d*d points of a two-dimensional latent space.
generate_latent_grid(d) ==
  [r \in 1..(d * d) |-> [c \in 1..2 |-> <<"grid", 0, r, c>>]]

\* Lines 286-313, num_classes = 0: one decoder call on the whole grid.
manifold2d(self, d, k) ==
  LET z == generate_latent_grid(d)
      res == decoder_call(self.decoder_net, z)
  IN [err |-> res.err, calls |-> <<Call(self.decoder_net, Len(z), Width(z))>>,
      out |-> res.out]

Manifold2d(i, d, k) ==
  LET res == manifold2d(inst[i], d, k)
  IN /\ inst[i].alive
     /\ last' = [NoOp EXCEPT !.op = "manifold2d", !.self = i, !.n = d * d, !.k = k,
                             !.err = res.err, !.calls = res.calls, !.out = res.out]
     /\ UNCHANGED <<inst, param_store, file>>

\* ------------------------------------------------------------- weights
\* The sub-modules whose parameters state_dict() holds: the two networks and
\* any module assigned by set_encoder/set_decoder.
state_dict(self) ==
  {<<"encoder_net", self.encoder_net>>, <<"decoder_net", self.decoder_net>>}
    \cup (IF self.encoder_z = Unset THEN {} ELSE {<<"encoder_z", self.encoder_z>>})
    \cup (IF self.decoder = Unset THEN {} ELSE {<<"decoder", self.decoder>>})

\* Lines 315-319.
SaveWeights(i) ==
  /\ inst[i].alive
  /\ file' = state_dict(inst[i])
  /\ last' = [NoOp EXCEPT !.op = "save_weights", !.self = i]
  /\ UNCHANGED <<inst, param_store>>

\* Lines 321-326. No modelled operation trains the networks, so the weights
\* a load restores are the ones the object already has.
LoadWeights(i) ==
  /\ inst[i].alive
  /\ last' = [NoOp EXCEPT !.op = "load_weights", !.self = i,
                !.err = IF file = {} THEN "FileNotFoundError"
                        ELSE IF file # state_dict(inst[i]) THEN "RuntimeError"
                        ELSE ""]
  /\ UNCHANGED <<inst, param_store, file>>

\* ------------------------------------------------------------- behaviours
\* The object the single-object behaviours are about.
Self == {1}

\* One object and every operation on it; the batch drivers on one input each.
Next ==
  \/ \E i \in Self, ndim \in {1, 2}, l \in LatentDims, c \in ReqCoords :
       Construct(i, ndim, l, c)
  \/ \E i \in Self, n \in 1..MaxN : SplitLatent(i, n)
  \/ \E i \in Self, n \in 1..MaxN : Model(i, n)
  \/ \E i \in Self, n \in 1..MaxN : Guide(i, n)
  \/ \E i \in Self, net \in UserNets : SetEncoder(i, net)
  \/ \E i \in Self, net \in UserNets : SetDecoder(i, net)
  \/ \E i \in Self : Encode(i, "Tensor", MaxN, 0, 0)
  \/ \E i \in Self : Decode(i, "Tensor", "fresh", MaxN, inst[i].latent_dim, 0)
  \/ \E i \in Self, d \in 1..MaxD : Manifold2d(i, d, 0)
  \/ \E i \in Self : SaveWeights(i)
  \/ \E i \in Self : LoadWeights(i)

Spec == Init /\ [][Next]_vars

\* One object and its batch drivers on every input.
NextBatch ==
  \/ \E i \in Self, ndim \in {1, 2}, l \in LatentDims, c \in ReqCoords :
       Construct(i, ndim, l, c)
  \/ \E i \in Self, n \in 1..MaxN, k \in BatchSizes : Encode(i, "Tensor", n, k, 0)
  \/ \E i \in Self, n \in 1..MaxN, lb \in 1..MaxK : Encode(i, "DataLoader", n, 0, lb)
  \/ \E i \in Self, n \in 1..MaxN : Encode(i, "ndarray", n, 0, 0)
  \/ \E i \in Self, n \in 1..MaxN, k \in BatchSizes :
       \E w \in {inst[i].latent_dim, inst[i].z_dim} : Decode(i, "Tensor", "fresh", n, w, k)
  \/ \E i \in Self, src \in {"z_loc", "content"}, k \in BatchSizes :
       Decode(i, "Tensor", src, last.n, 0, k)
  \/ \E i \in Self, kind \in {"DataLoader", "ndarray"}, n \in 1..MaxN :
       Decode(i, kind, "fresh", n, inst[i].z_dim, 0)
  \/ \E i \in Self, d \in 1..MaxD, k \in BatchSizes : Manifold2d(i, d, k)

SpecBatch == Init /\ [][NextBatch]_vars

\* Several objects sharing Pyro's parameter store: construction and the
\* model/guide calls of stochastic variational inference.
NextStore ==
  \/ \E i \in Insts, ndim \in {1, 2}, l \in LatentDims, c \in ReqCoords :
       Construct(i, ndim, l, c)
  \/ \E i \in Insts : Model(i, MaxN)
  \/ \E i \in Insts : Guide(i, MaxN)

SpecStore == Init /\ [][NextStore]_vars

\* ------------------------------------------------------------- properties
\* The object the latest operation was called on.
LastSelf == inst[last.self]

\* Equality of two tensor values, kind first.
SameT(a, b) == a.t = b.t /\ a.v = b.v

\* Columns a tensor value contributes to a row of z: none for None and
\* tt(0), one for a 1-D tensor, its width for a 2-D tensor.
PartWidth(p) == IF p.t = "vec" THEN 1 ELSE IF p.t = "mat" THEN Width(p.v) ELSE 0
PartRow(p, r) == IF p.t = "vec" THEN <<p.v[r]>> ELSE IF p.t = "mat" THEN p.v[r] ELSE <<>>

\* The row the encoder gives sample s: columns 1..w of tag "loc"/"scale".
EncRow(tag, owner, s, w) == [c \in 1..w |-> <<tag, owner, s, c>>]

\* Number of parameter-store entries under a name.
Count(name) == Cardinality({e \in 1..Len(param_store) : param_store[e].name = name})
Holds(name, net) == \E e \in 1..Len(param_store) : param_store[e] = [name |-> name, net |-> net]

RECURSIVE SumSizes(_)
\* Samples handed to the networks over a sequence of calls.
SumSizes(calls) == IF calls = <<>> THEN 0 ELSE Head(calls).size + SumSizes(Tail(calls))

C1_Fields ==
  \A i \in Insts : inst[i].alive =>
    /\ inst[i].z_dim = inst[i].latent_dim + inst[i].coord
    /\ inst[i].ndim = 2 => inst[i].coord \in {0, 1, 2, 3}
    /\ inst[i].ndim = 1 => /\ inst[i].coord \in {0, 1}
                           /\ inst[i].req > 0 => inst[i].coord = 1

C1_Kept ==
  \A i \in Insts : inst[i].alive =>
    /\ inst'[i].alive
    /\ inst'[i].z_dim = inst[i].z_dim
    /\ inst'[i].coord = inst[i].coord

\* C1: every constructed trVAE has z_dim = latent_dim + coord with the stored
\* coord in {0,1,2,3} for 2D data and in {0,1} for 1D data (a requested
\* coord > 0 stored as 1), and no later operation changes z_dim or coord.
C1_ZDimIsLatentPlusCoord == []C1_Fields /\ [][C1_Kept]_vars

\* C1 witness: a 1D object built with coord 4, after a later operation.
C1_Witness ==
  /\ last.op = "load_weights"
  /\ LastSelf.ndim = 1 /\ LastSelf.req = 4 /\ LastSelf.coord = 1

SplitCovers(z, out) ==
  /\ \A r \in 1..Len(z) :
       PartRow(out[1], r) \o PartRow(out[2], r) \o PartRow(out[3], r) = z[r]
  /\ PartWidth(out[1]) + PartWidth(out[2]) + PartWidth(out[3]) = Width(z)

\* C3 as stated, on the modes in which the code itself calls split_latent
\* (coord > 0): the slices of each mode with the absent part None, parts
\* that reassemble z, and a content of width latent_dim.
C3_SplitSlicesNone ==
  (last.op = "split_latent" /\ LastSelf.coord > 0) =>
    LET self == LastSelf
        z == ZTensor(last.n, self.z_dim)
        W == self.z_dim
        phi == last.out[1]
        dx == last.out[2]
        zc == last.out[3]
    IN /\ self.ndim = 1 =>
            /\ SameT(phi, None) /\ SameT(dx, T("mat", Cols(z, 0, 1)))
            /\ SameT(zc, T("mat", Cols(z, 1, W)))
       /\ (self.ndim = 2 /\ self.coord = 1) =>
            /\ SameT(phi, T("vec", Col(z, 0))) /\ SameT(dx, None)
            /\ SameT(zc, T("mat", Cols(z, 1, W)))
       /\ (self.ndim = 2 /\ self.coord = 2) =>
            /\ SameT(phi, None) /\ SameT(dx, T("mat", Cols(z, 0, 2)))
            /\ SameT(zc, T("mat", Cols(z, 2, W)))
       /\ (self.ndim = 2 /\ self.coord = 3) =>
            /\ SameT(phi, T("vec", Col(z, 0))) /\ SameT(dx, T("mat", Cols(z, 1, 3)))
            /\ SameT(zc, T("mat", Cols(z, 3, W)))
       /\ SplitCovers(z, last.out)
       /\ PartWidth(zc) = self.latent_dim

\* C3 amended: the same slices, but for 2D data the absent part is the
\* scalar tensor tt(0), not None (None is returned only as phi for 1D data),
\* 2D coord 0 returns (tt(0), tt(0), z), and the content has width
\* latent_dim except for 1D data with coord 0, where the first column is
\* still split off as dx and the content has width latent_dim - 1.
C3_SplitSlicesPlaceholder ==
  last.op = "split_latent" =>
    LET self == LastSelf
        z == ZTensor(last.n, self.z_dim)
        W == self.z_dim
        phi == last.out[1]
        dx == last.out[2]
        zc == last.out[3]
    IN /\ self.ndim = 1 =>
            /\ SameT(phi, None) /\ SameT(dx, T("mat", Cols(z, 0, 1)))
            /\ SameT(zc, T("mat", Cols(z, 1, W)))
       /\ (self.ndim = 2 /\ self.coord = 0) =>
            /\ SameT(phi, tt0) /\ SameT(dx, tt0) /\ SameT(zc, T("mat", z))
       /\ (self.ndim = 2 /\ self.coord = 1) =>
            /\ SameT(phi, T("vec", Col(z, 0))) /\ SameT(dx, tt0)
            /\ SameT(zc, T("mat", Cols(z, 1, W)))
       /\ (self.ndim = 2 /\ self.coord = 2) =>
            /\ SameT(phi, tt0) /\ SameT(dx, T("mat", Cols(z, 0, 2)))
            /\ SameT(zc, T("mat", Cols(z, 2, W)))
       /\ (self.ndim = 2 /\ self.coord = 3) =>
            /\ SameT(phi, T("vec", Col(z, 0))) /\ SameT(dx, T("mat", Cols(z, 1, 3)))
            /\ SameT(zc, T("mat", Cols(z, 3, W)))
       /\ SplitCovers(z, last.out)
       /\ PartWidth(zc) = IF self.ndim = 1 /\ self.coord = 0
                          THEN self.latent_dim - 1 ELSE self.latent_dim

\* C3 witness: split_latent on a batch of 2D coord-3 latents.
C3_Witness ==
  /\ last.op = "split_latent" /\ last.n >= 2
  /\ LastSelf.ndim = 2 /\ LastSelf.coord = 3
  /\ PartWidth(last.out[2]) = 2

\* C4: whatever the chunking, encode returns for sample j, in row j, the
\* encoder's z_loc and z_scale rows of that sample (what one encoder call on
\* all n samples gives), each of width z_dim, and the chunks handed to the
\* encoder cover the n samples exactly once.
C4_EncodeChunkingInvisible ==
  (last.op = "encode" /\ last.err = "") =>
    LET self == LastSelf
        whole == encoder_call(self.encoder_net, Samples(last.n))
    IN /\ Len(last.out) = 2
       /\ last.out[1] = whole[1] /\ last.out[2] = whole[2]
       /\ Len(last.out[1]) = last.n /\ Len(last.out[2]) = last.n
       /\ \A j \in 1..last.n :
            /\ last.out[1][j] = EncRow("loc", last.self, j, self.z_dim)
            /\ last.out[2][j] = EncRow("scale", last.self, j, self.z_dim)
       /\ SumSizes(last.calls) = last.n
       /\ \A j \in 1..Len(last.calls) : last.calls[j].size >= 1

\* C4 witness: a tensor encoded with a batch_size that does not divide n,
\* in several chunks of which the last is partial.
C4_Witness ==
  /\ last.op = "encode" /\ last.err = "" /\ last.kind = "Tensor"
  /\ last.k > 1 /\ last.n % last.k # 0
  /\ Len(last.calls) >= 2
  /\ last.calls[Len(last.calls)].size < last.calls[1].size

\* C5: with a caller-supplied chunk size k, no call of the encoder or
\* decoder made by encode, decode or manifold2d gets more than k samples.
C5_ChunkSizeHonoured ==
  (last.op \in {"encode", "decode", "manifold2d"} /\ last.k > 0) =>
    \A j \in 1..Len(last.calls) : last.calls[j].size <= last.k

\* C6: encode or decode on an input that is neither a tensor nor a
\* DataLoader fails with TypeError before any network call.
C6_BadInputTypeError ==
  (last.op \in {"encode", "decode"} /\ last.kind \notin {"Tensor", "DataLoader"}) =>
    last.err = "TypeError" /\ last.calls = <<>>

\* decode returned, in row j, the decoder's output for row j of z.
DecodedRows(z) ==
  /\ last.err = ""
  /\ Len(last.out) = Len(z)
  /\ \A j \in 1..Len(z) : last.out[j] = <<"dec", last.self, z[j]>>

\* C7 as stated: for every coord, decode(encode(x).z_loc) is accepted by
\* the decoder and returns one reconstruction per sample, in input order.
C7_RoundTripDefined ==
  (last.op = "decode" /\ last.src = "z_loc") =>
    DecodedRows([j \in 1..last.n |-> EncRow("loc", last.self, j, LastSelf.z_dim)])

\* C7 amended (num_classes = 0): decode(encode(x).z_loc) returns one
\* reconstruction per sample in input order only for coord 0; for coord in
\* {1,2,3} (and 1D coord 1) z_loc has width z_dim = latent_dim + coord, the
\* decoder accepts latent_dim, and the call fails in the decoder; there
\* decode(z_loc[:, coord:]) returns one reconstruction per sample in order.
C7_RoundTripOnContent ==
  (last.op = "decode" /\ last.src \in {"z_loc", "content"}) =>
    LET self == LastSelf
        loc == [j \in 1..last.n |-> EncRow("loc", last.self, j, self.z_dim)]
    IN /\ (last.src = "z_loc" /\ self.coord = 0) => DecodedRows(loc)
       /\ (last.src = "z_loc" /\ self.coord > 0) =>
            last.err = "ShapeError" /\ last.out = <<>>
       /\ last.src = "content" =>
            DecodedRows([j \in 1..last.n |-> SubSeq(loc[j], self.coord + 1, self.z_dim)])

\* C7 witness: the content columns of an encoded batch decoded in several
\* chunks by an object with coord > 0.
C7_Witness ==
  /\ last.op = "decode" /\ last.src = "content" /\ last.err = ""
  /\ LastSelf.coord > 0 /\ last.n >= 2 /\ Len(last.calls) >= 2

\* C8: after any model and guide calls on one object the parameter store
\* holds at most one entry named decoder_net and at most one named
\* encoder_net and nothing else; once model was called decoder_net is there
\* and holds the object's decoder, once guide was called encoder_net is
\* there and holds its encoder.
C8_RegisteredOnce ==
  /\ Count("decoder_net") <= 1
  /\ Count("encoder_net") <= 1
  /\ Len(param_store) = Count("decoder_net") + Count("encoder_net")
  /\ \A i \in Self :
       /\ inst[i].model_called => Holds("decoder_net", inst[i].decoder_net)
       /\ inst[i].guide_called => Holds("encoder_net", inst[i].encoder_net)

\* C8 witness: model called again after model and guide had registered both.
C8_Witness ==
  /\ last.op = "model" /\ LastSelf.guide_called
  /\ Len(param_store) = 2
  /\ param_store[1].name = "decoder_net" /\ param_store[2].name = "encoder_net"

\* C9: constructing an object leaves in the parameter store every entry
\* that earlier model/guide calls registered.
C9_ConstructionKeepsStore ==
  [][last'.op = "__init__" =>
       \A e \in 1..Len(param_store) :
         \E e2 \in 1..Len(param_store') : param_store'[e2] = param_store[e]]_vars

\* C10: after set_encoder(net) guide and encode call net, and after
\* set_decoder(net) model, decode and manifold2d call net.
C10_SetNetworksUsed ==
  /\ last.op \in {"guide", "encode"} =>
       (LastSelf.encoder_z # Unset =>
          \A j \in 1..Len(last.calls) : last.calls[j].net = LastSelf.encoder_z)
  /\ last.op \in {"model", "decode", "manifold2d"} =>
       (LastSelf.decoder # Unset =>
          \A j \in 1..Len(last.calls) : last.calls[j].net = LastSelf.decoder)
====
